---- MODULE Spec2Model ----
(***************************************************************************)
(* Brand-service MCP adapter: the stdio variant (mcp-brand-service.js) and *)
(* the HTTP variant (mcp-http-server.js).  A process runs one variant; it  *)
(* holds the cached session tokens and serves call-tool invocations, each  *)
(* of which runs synchronously up to its single backend request and is     *)
(* resumed by the upstream outcome.                                        *)
(*                                                                         *)
(* JavaScript values are abstracted to the classes the code's conditions   *)
(* distinguish: "undefined", "null", "zero" (0), "empty" (""), "blank"     *)
(* (whitespace-only string), "str" (non-empty string that is not a URL),   *)
(* "url" (string that parses as a URL), "json" (string holding a JSON      *)
(* object), "one" (1), "neg" (-1), "frac" (1.5), "arr0" ([]), "arr"        *)
(* (non-empty array of strings), "ADDON_CUSTOM", tokens "T1".., "R1"..,    *)
(* and "RX" (a refresh token supplied by the caller).                      *)
(***************************************************************************)
EXTENDS Integers, Sequences, FiniteSets, TLC

VARIABLES variant, cachedToken, cachedRefreshToken, inv, lastWrite, proc

vars == <<variant, cachedToken, cachedRefreshToken, inv, lastWrite, proc>>

\* ------------------------------------------------------------------------
\* Bounds
\* ------------------------------------------------------------------------
\* number of distinct upstream login/refresh responses (token pairs)
NumResp == 2
\* number of invocation slots of the process
MaxInFlight == 2
\* longest body, in bytes, a binary endpoint answers with
MaxPayloadLen == 3

\* ------------------------------------------------------------------------
\* Program constants
\* ------------------------------------------------------------------------
TIMEOUT == 15000

\* ------------------------------------------------------------------------
\* JavaScript value classes
\* ------------------------------------------------------------------------
Falsy == {"undefined", "null", "zero", "empty"}

Truthy(v) == v \notin Falsy

Nullish(v) == v \in {"undefined", "null"}

\* typeof v === "string"
IsString(v) == v \in {"empty", "blank", "str", "url", "json", "ADDON_CUSTOM", "RX"}

\* Array.isArray(v)
IsArray(v) == v \in {"arr0", "arr"}

\* v.trim() is the empty string (v a string)
TrimsToEmpty(v) == v \in {"empty", "blank"}

\* Number.isInteger(v)
IsInteger(v) == v \in {"zero", "one", "neg"}

\* Number.isFinite(Number(v)): null and "" and whitespace convert to 0
NumberIsFinite(v) == v \in {"null", "zero", "one", "neg", "frac", "empty", "blank", "arr0"}

\* Number(v) < 0, v <= 0, v < 1 on the numeric classes
IsNegative(v) == v = "neg"

AccessTokens == {"T1", "T2", "T3", "T4"}
RefreshTokens == {"R1", "R2", "R3", "R4"}

AccessTok(i) == <<"T1", "T2", "T3", "T4">>[i]
RefreshTok(i) == <<"R1", "R2", "R3", "R4">>[i]

\* ------------------------------------------------------------------------
\* stdio variant: tool catalog (ListTools), dispatcher branches (CallTool)
\* ------------------------------------------------------------------------
\* names answered by a branch of the CallTool handler
StdioTools ==
    {"fetchBrandDetails", "login", "refreshToken", "getUserById", "forward", "updateUserProfile",
     "forgotPassword", "resetPassword", "createRivoApiKey", "adminGetAllApiKeys",
     "adminGetApiKeysForUser", "adminCreateApiKeyForUser", "adminRevokeApiKey", "adminDeleteApiKey",
     "adminGetApiKeyUsage", "adminGetApiKeySystemStats", "adminResetApiKeyRateLimit",
     "adminUpdateApiKeyScopes", "getAddOnPackages", "purchaseAddOn", "getAddOnsForApiKey",
     "getActiveAddOnsForApiKey", "getAddOnRecommendations", "cancelAddOn", "renewAddOn",
     "getExpiringAddOns", "getNearlyExhaustedAddOns", "processAutoRenewals", "cleanupExpiredAddOns",
     "getRivoApiKeys", "getBrandsPaged", "getRivoApiKeyById", "updateRivoApiKey", "revokeRivoApiKey",
     "regenerateRivoApiKey", "deleteRivoApiKey", "getBrandDetailsById", "getBrandByWebsite",
     "getBrandByName", "searchBrands", "getBrandsByDomain", "getBrandStatistics",
     "getBrandDashboardSummary", "getBrandDashboardSearches", "getBrandDashboardDetails",
     "getAllBrandsWithSearch", "getAllBrandsLegacy", "serveBrandAsset", "serveBrandImage",
     "extractBrandData", "claimBrand", "getBrandPerformanceTest", "getBrandsByCategory",
     "getBrandsByCategoryAndSubcategory", "getBrandByIdCategoryAndSubcategory"}

\* a ListTools answer that leaves a dispatched tool out
StdioListedWithoutForward == StdioTools \ {"forward"}

\* names advertised by the ListTools handler
StdioListed ==
    {"fetchBrandDetails", "login", "refreshToken", "forward", "forgotPassword", "updateUserProfile",
     "getUserById", "resetPassword", "createRivoApiKey", "adminGetAllApiKeys",
     "adminGetApiKeysForUser", "adminCreateApiKeyForUser", "adminRevokeApiKey", "adminDeleteApiKey",
     "adminGetApiKeyUsage", "adminGetApiKeySystemStats", "adminResetApiKeyRateLimit",
     "adminUpdateApiKeyScopes", "getAddOnPackages", "purchaseAddOn", "getAddOnsForApiKey",
     "getActiveAddOnsForApiKey", "getAddOnRecommendations", "cancelAddOn", "renewAddOn",
     "getExpiringAddOns", "getNearlyExhaustedAddOns", "processAutoRenewals", "cleanupExpiredAddOns",
     "getRivoApiKeys", "getRivoApiKeyById", "getBrandsPaged", "updateRivoApiKey", "revokeRivoApiKey",
     "regenerateRivoApiKey", "deleteRivoApiKey", "getBrandDetailsById", "getBrandByWebsite",
     "getBrandByName", "searchBrands", "getBrandsByDomain", "getBrandStatistics",
     "getBrandDashboardSummary", "getBrandDashboardSearches", "getBrandDashboardDetails",
     "getAllBrandsWithSearch", "getAllBrandsLegacy", "serveBrandAsset", "serveBrandImage",
     "extractBrandData", "claimBrand", "getBrandPerformanceTest", "getBrandsByCategory",
     "getBrandsByCategoryAndSubcategory", "getBrandByIdCategoryAndSubcategory"}

\* names enumerated after "Available tools:" in the unknown-tool message
StdioAvailableNames ==
    {"fetchBrandDetails", "login", "refreshToken", "forward", "updateUserProfile", "forgotPassword",
     "getUserById", "getBrandsPaged", "resetPassword", "createRivoApiKey", "getRivoApiKeys",
     "getRivoApiKeyById", "updateRivoApiKey", "revokeRivoApiKey", "regenerateRivoApiKey",
     "deleteRivoApiKey", "getBrandDetailsById", "getBrandByWebsite", "getBrandByName",
     "searchBrands", "getBrandsByDomain", "getBrandStatistics", "getBrandDashboardSummary",
     "getBrandDashboardSearches", "getBrandDashboardDetails", "getAllBrandsWithSearch",
     "getAllBrandsLegacy", "serveBrandAsset", "serveBrandImage", "extractBrandData", "claimBrand",
     "getBrandPerformanceTest", "getBrandsByCategory", "getBrandsByCategoryAndSubcategory",
     "getBrandByIdCategoryAndSubcategory"}

\* dispatcher branches that reject a non-empty arguments object
StdioDispNoArgs ==
    {"adminGetAllApiKeys", "adminGetApiKeySystemStats", "getAddOnPackages", "getExpiringAddOns",
     "getNearlyExhaustedAddOns", "processAutoRenewals", "cleanupExpiredAddOns"}

\* dispatcher branches whose presence check is `x === undefined || x === null`
StdioDispNullish ==
    {"getBrandsByCategory", "getBrandsByCategoryAndSubcategory", "getBrandByIdCategoryAndSubcategory"}

\* fields the dispatcher branch of tool t checks for presence (`!x` unless
\* the branch is in StdioDispNullish)
StdioDispFields(t) ==
    CASE t \in {"fetchBrandDetails", "forward", "extractBrandData"} -> {"url"}
      [] t = "login" -> {"username", "password"}
      [] t \in {"getUserById", "getBrandDetailsById", "claimBrand"} -> {"id"}
      [] t = "forgotPassword" -> {"email"}
      [] t = "resetPassword" -> {"token", "newPassword"}
      [] t = "createRivoApiKey" -> {"name", "registeredDomain"}
      [] t = "adminGetApiKeysForUser" -> {"userId"}
      [] t = "adminCreateApiKeyForUser" -> {"userId", "name", "registeredDomain"}
      [] t \in {"adminRevokeApiKey", "adminDeleteApiKey", "adminGetApiKeyUsage",
                "adminResetApiKeyRateLimit", "getRivoApiKeyById", "updateRivoApiKey",
                "revokeRivoApiKey", "regenerateRivoApiKey", "deleteRivoApiKey"} -> {"keyId"}
      [] t = "adminUpdateApiKeyScopes" -> {"keyId", "scopes"}
      [] t = "purchaseAddOn" -> {"apiKeyId", "addOnPackage"}
      [] t \in {"getAddOnsForApiKey", "getActiveAddOnsForApiKey", "getAddOnRecommendations"}
           -> {"apiKeyId"}
      [] t \in {"cancelAddOn", "renewAddOn"} -> {"addOnId"}
      [] t = "getBrandByWebsite" -> {"website"}
      [] t = "getBrandByName" -> {"name"}
      [] t = "searchBrands" -> {"q"}
      [] t = "getBrandsByDomain" -> {"domain"}
      [] t = "getBrandDashboardDetails" -> {"brandId"}
      [] t = "serveBrandAsset" -> {"assetId"}
      [] t = "serveBrandImage" -> {"imageId"}
      [] t = "getBrandsByCategory" -> {"categoryId"}
      [] t = "getBrandsByCategoryAndSubcategory" -> {"categoryId", "subCategoryId"}
      [] t = "getBrandByIdCategoryAndSubcategory" -> {"id", "categoryId"}
      [] OTHER -> {}

\* dispatcher branches that await the handler outside any inner try/catch
StdioNoInnerTry == {"fetchBrandDetails", "login"}

\* ------------------------------------------------------------------------
\* stdio variant: handler functions
\* ------------------------------------------------------------------------
\* fields the handler rejects when falsy (`!x`)
StdioReqFalsy(t) ==
    CASE t \in {"fetchBrandDetails", "forward", "extractBrandData"} -> {"url"}
      [] t = "login" -> {"username", "password"}
      [] t \in {"getUserById", "getBrandDetailsById", "claimBrand"} -> {"id"}
      [] t = "forgotPassword" -> {"email"}
      [] t = "resetPassword" -> {"token", "newPassword"}
      [] t = "createRivoApiKey" -> {"name", "registeredDomain"}
      [] t = "adminGetApiKeysForUser" -> {"userId"}
      [] t = "adminCreateApiKeyForUser" -> {"userId", "name", "registeredDomain"}
      [] t \in {"adminRevokeApiKey", "adminDeleteApiKey", "adminGetApiKeyUsage",
                "adminResetApiKeyRateLimit", "getRivoApiKeyById", "updateRivoApiKey",
                "revokeRivoApiKey", "regenerateRivoApiKey", "deleteRivoApiKey"} -> {"keyId"}
      [] t = "adminUpdateApiKeyScopes" -> {"keyId", "scopes"}
      [] t = "purchaseAddOn" -> {"apiKeyId", "addOnPackage"}
      [] t \in {"getAddOnsForApiKey", "getActiveAddOnsForApiKey", "getAddOnRecommendations"}
           -> {"apiKeyId"}
      [] t \in {"cancelAddOn", "renewAddOn"} -> {"addOnId"}
      [] t = "getBrandByWebsite" -> {"website"}
      [] t = "getBrandByName" -> {"name"}
      [] t = "searchBrands" -> {"q"}
      [] t = "getBrandsByDomain" -> {"domain"}
      [] t = "getBrandDashboardDetails" -> {"brandId"}
      [] t = "serveBrandAsset" -> {"assetId"}
      [] t = "serveBrandImage" -> {"imageId"}
      [] OTHER -> {}

\* fields the handler rejects when falsy and not 0 (`!x && x !== 0`)
StdioReqFalsyNotZero(t) ==
    CASE t = "getBrandsByCategory" -> {"categoryId"}
      [] t = "getBrandsByCategoryAndSubcategory" -> {"categoryId", "subCategoryId"}
      [] t = "getBrandByIdCategoryAndSubcategory" -> {"id", "categoryId", "subCategoryId"}
      [] OTHER -> {}

\* handlers that throw "Not authenticated" when cachedToken is falsy
StdioAuthCheck ==
    {"getUserById", "updateUserProfile", "createRivoApiKey", "adminGetAllApiKeys",
     "adminGetApiKeysForUser", "adminCreateApiKeyForUser", "adminRevokeApiKey", "adminDeleteApiKey",
     "adminGetApiKeyUsage", "adminGetApiKeySystemStats", "adminResetApiKeyRateLimit",
     "adminUpdateApiKeyScopes", "getAddOnPackages", "purchaseAddOn", "getAddOnsForApiKey",
     "getActiveAddOnsForApiKey", "getAddOnRecommendations", "cancelAddOn", "renewAddOn",
     "getExpiringAddOns", "getNearlyExhaustedAddOns", "processAutoRenewals", "cleanupExpiredAddOns",
     "getRivoApiKeys", "getRivoApiKeyById", "updateRivoApiKey", "revokeRivoApiKey",
     "regenerateRivoApiKey", "deleteRivoApiKey", "getBrandDetailsById", "getBrandByWebsite",
     "getBrandByName", "searchBrands", "getBrandsByDomain", "getBrandStatistics",
     "getBrandDashboardSummary", "getBrandDashboardSearches", "getBrandDashboardDetails",
     "extractBrandData", "claimBrand", "getBrandsByCategory", "getBrandsByCategoryAndSubcategory",
     "getBrandByIdCategoryAndSubcategory"}

\* handlers whose request always carries Authorization: `Bearer ${cachedToken}`
StdioAuthHeaderAlways == StdioAuthCheck \cup {"forward"}

\* handlers whose request carries the header only when cachedToken is truthy
StdioAuthHeaderIfToken ==
    {"getBrandsPaged", "getAllBrandsWithSearch", "getAllBrandsLegacy", "getBrandPerformanceTest"}

\* handlers whose upstream-error message reads data?.message only
StdioErrFieldMessage == {"fetchBrandDetails", "forward", "revokeRivoApiKey", "deleteRivoApiKey"}

\* handlers whose upstream-error message reads data?.error || data?.message
StdioErrFieldBoth ==
    {"adminGetApiKeyUsage", "adminGetApiKeySystemStats", "getAddOnPackages", "purchaseAddOn",
     "getAddOnsForApiKey", "getActiveAddOnsForApiKey", "getAddOnRecommendations", "cancelAddOn",
     "renewAddOn", "getExpiringAddOns", "getNearlyExhaustedAddOns", "processAutoRenewals",
     "cleanupExpiredAddOns"}

\* handlers requesting responseType "arraybuffer"
StdioBinary == {"serveBrandAsset", "serveBrandImage"}

\* ------------------------------------------------------------------------
\* Tool arguments
\* ------------------------------------------------------------------------
\* the classes a presence check distinguishes
ReqVals == {"undefined", "null", "zero", "empty", "str"}

\* stdio tools whose handler takes no required field: "other" stands for any
\* key of the arguments object
StdioNoRequired ==
    StdioDispNoArgs \cup
    {"getRivoApiKeys", "getBrandStatistics", "getBrandDashboardSummary", "getBrandPerformanceTest",
     "updateUserProfile", "getBrandsPaged", "getBrandDashboardSearches", "getAllBrandsWithSearch",
     "getAllBrandsLegacy"}

\* argument fields of tool t that the stdio code inspects
StdioFields(t) ==
    CASE t = "refreshToken" -> {"refreshToken"}
      [] t = "purchaseAddOn" ->
           {"apiKeyId", "addOnPackage", "durationMonths", "customRequests", "customPrice"}
      [] t = "renewAddOn" -> {"addOnId", "durationMonths"}
      [] t = "getAddOnRecommendations" -> {"apiKeyId", "overageRequests"}
      [] t \in StdioNoRequired -> {"other"}
      [] OTHER -> StdioDispFields(t) \cup StdioReqFalsy(t) \cup StdioReqFalsyNotZero(t)

\* values enumerated for field f of tool t
FieldVals(t, f) ==
    CASE f = "other" -> {"undefined", "str"}
      [] f = "url" /\ t \in {"fetchBrandDetails", "forward"} ->
           {"undefined", "null", "zero", "empty", "str", "url"}
      [] f = "refreshToken" -> {"undefined", "null", "empty", "RX"}
      [] f = "scopes" -> {"undefined", "null", "arr0", "arr", "str", "blank", "one"}
      [] f = "durationMonths" -> {"undefined", "zero", "one", "frac"}
      [] f = "customRequests" -> {"undefined", "null", "zero", "one"}
      [] f = "customPrice" -> {"undefined", "null", "neg", "zero"}
      [] f = "addOnPackage" -> {"undefined", "str", "ADDON_CUSTOM"}
      [] f = "overageRequests" -> {"undefined", "null", "zero", "one", "neg", "str"}
      [] f = "apiKeyId" /\ t = "purchaseAddOn" -> {"undefined", "str"}
      [] f = "payload" -> {"undefined", "null", "empty", "str", "json"}
      [] f \in {"apiKey", "apiDomain"} -> {"undefined", "blank", "str"}
      [] OTHER -> ReqVals

\* an arguments object: present = FALSE is a call without `arguments`;
\* f[x] = "undefined" is a key that is not in the object
RECURSIVE FieldAssignments(_, _)
FieldAssignments(t, fields) ==
    IF fields = {} THEN { [x \in {} |-> "undefined"] }
    ELSE LET x == CHOOSE y \in fields : TRUE
         IN  { g @@ (x :> v) : g \in FieldAssignments(t, fields \ {x}), v \in FieldVals(t, x) }

ArgsOver(t, fields) ==
    { [present |-> TRUE, f |-> g] : g \in FieldAssignments(t, fields) }
    \cup { [present |-> FALSE, f |-> [x \in fields |-> "undefined"]] }

NoArgs == [present |-> FALSE, f |-> [x \in {} |-> "undefined"]]

\* `const { x } = request.params.arguments || {}`
Arg(a, x) == IF x \in DOMAIN a.f THEN a.f[x] ELSE "undefined"

\* Object.keys(arguments).length > 0
HasKeys(a) == a.present /\ \E x \in DOMAIN a.f : a.f[x] # "undefined"

\* ------------------------------------------------------------------------
\* Requests, messages, results
\* ------------------------------------------------------------------------
NoAuth == [present |-> FALSE, value |-> "undefined"]

\* `Bearer ${tok}`: the template renders null and undefined as text
Bearer(tok) == [present |-> TRUE, value |-> tok]

NoReq == [auth |-> NoAuth, body |-> "undefined", binary |-> FALSE]

Req(auth, body, binary) == [auth |-> auth, body |-> body, binary |-> binary]

Msg(kind, status, detail, ms, names) ==
    [kind |-> kind, status |-> status, detail |-> detail, ms |-> ms, names |-> names]

Plain(kind) == Msg(kind, 0, "", 0, {})

\* a tool result handed to the transport: `via` is the place that built it,
\* status the HTTP status of the /call-tool answer (0 on stdio), base64 the
\* base64 text it carries (a sequence of 6-bit digits, 64 for the pad "=")
Result(isError, blocks, msg, via, status) ==
    [escaped |-> FALSE, isError |-> isError, blocks |-> blocks, msg |-> msg,
     via |-> via, status |-> status, base64 |-> <<>>]

\* an exception that left the dispatcher
Escaped(msg) ==
    [escaped |-> TRUE, isError |-> FALSE, blocks |-> <<>>, msg |-> msg,
     via |-> "none", status |-> 0, base64 |-> <<>>]

NoResult == Result(FALSE, <<>>, Plain("none"), "none", 0)

\* message kinds that report a failure
FailureKinds ==
    {"required", "noArgsAccepted", "missing", "invalidUrl", "notAuth", "missingRefresh",
     "validation", "upstream", "network", "timeout", "local", "unknownTool",
     "bodyMessage", "axiosStatus", "axiosNetwork", "axiosTimeout", "axiosLocal",
     "typeError", "referenceError", "syntaxError", "toolNotFound"}

\* ------------------------------------------------------------------------
\* Upstream outcomes of one backend request
\* ------------------------------------------------------------------------
ErrStatuses == {404, 500}

StatusText(s) == IF s = 404 THEN "Not Found" ELSE "Internal Server Error"

\* the error object axios rejects with, as the catch blocks probe it:
\* err.response, err.request, err.code
ErrShape(kind) ==
    CASE kind = "status"  -> [hasResponse |-> TRUE,  hasRequest |-> TRUE,  code |-> "ERR_BAD_REQUEST"]
      [] kind = "network" -> [hasResponse |-> FALSE, hasRequest |-> TRUE,  code |-> "ECONNREFUSED"]
      [] kind = "timeout" -> [hasResponse |-> FALSE, hasRequest |-> TRUE,  code |-> "ECONNABORTED"]
      [] kind = "setup"   -> [hasResponse |-> FALSE, hasRequest |-> FALSE, code |-> "ERR_INVALID_URL"]

\* a 2xx response: for /auth/login and /auth/refresh the body of response
\* number id carries token AccessTok(id) and refreshToken RefreshTok(id), each
\* possibly absent; other endpoints answer opaque data
OkOutcomes ==
    { [kind |-> "ok", status |-> 200, token |-> tk, refreshToken |-> rt,
       error |-> "undefined", message |-> "undefined", bytes |-> <<>>] :
        tk \in {"undefined"} \cup { AccessTok(i) : i \in 1..NumResp },
        rt \in {"undefined"} \cup { RefreshTok(i) : i \in 1..NumResp } }

\* a non-2xx response with status s and a body whose error / message fields
\* may be absent
StatusOutcomes ==
    { [kind |-> "status", status |-> s, token |-> "undefined", refreshToken |-> "undefined",
       error |-> e, message |-> m, bytes |-> <<>>] :
        s \in ErrStatuses, e \in {"undefined", "E"}, m \in {"undefined", "M"} }

\* no response: connection failure, timeout, or failure before the send
NoResponseOutcomes ==
    { [kind |-> k, status |-> 0, token |-> "undefined", refreshToken |-> "undefined",
       error |-> "undefined", message |-> "undefined", bytes |-> <<>>] :
        k \in {"network", "timeout", "setup"} }

\* byte values bodies are built from, and the bodies a binary endpoint
\* answers with
PayloadBytes == {0, 77, 255}

Payloads == UNION { [1..n -> PayloadBytes] : n \in 0..MaxPayloadLen }

\* a 2xx response of a binary endpoint (responseType "arraybuffer")
BinaryOutcomes ==
    { [kind |-> "ok", status |-> 200, token |-> "undefined", refreshToken |-> "undefined",
       error |-> "undefined", message |-> "undefined", bytes |-> p] : p \in Payloads }

\* outcomes the backend can answer tool t's request with
Outcomes(t) ==
    (IF t \in {"serveBrandAsset", "serveBrandImage"} THEN BinaryOutcomes
     ELSE IF t \in {"login", "refreshToken", "refreshAuthToken"}
       THEN { o \in OkOutcomes :
                \/ o.token = "undefined" \/ o.refreshToken = "undefined"
                \/ \E i \in 1..NumResp : o.token = AccessTok(i) /\ o.refreshToken = RefreshTok(i) }
       ELSE { o \in OkOutcomes : o.token = "undefined" /\ o.refreshToken = "undefined" })
    \cup StatusOutcomes \cup NoResponseOutcomes

\* ------------------------------------------------------------------------
\* stdio variant: the CallTool handler up to the handler's request
\* ------------------------------------------------------------------------
\* the presence check at the top of a dispatcher branch rejects the call
StdioDispRejects(t, a) ==
    IF t \in StdioDispNoArgs THEN HasKeys(a)
    ELSE IF t \in StdioDispNullish THEN \E x \in StdioDispFields(t) : Nullish(Arg(a, x))
    ELSE \E x \in StdioDispFields(t) : ~Truthy(Arg(a, x))

\* `const tokenToUse = refreshToken || cachedRefreshToken`
TokenToUse(a, rtok) ==
    IF Truthy(Arg(a, "refreshToken")) THEN Arg(a, "refreshToken") ELSE rtok

\* handlers of the category tools that rely on the dispatcher's presence
\* check instead of making their own
StdioMissingInputTrusting(t, a, rtok) ==
    \/ t = "refreshToken" /\ ~Truthy(TokenToUse(a, rtok))
    \/ \E x \in StdioReqFalsy(t) : ~Truthy(Arg(a, x))
    \/ t = "adminUpdateApiKeyScopes" /\ Arg(a, "scopes") = "arr0"

\* the required-input checks at the top of a handler function throw
StdioMissingInput(t, a, rtok) ==
    \/ t = "refreshToken" /\ ~Truthy(TokenToUse(a, rtok))
    \/ \E x \in StdioReqFalsy(t) : ~Truthy(Arg(a, x))
    \/ \E x \in StdioReqFalsyNotZero(t) : ~Truthy(Arg(a, x)) /\ Arg(a, x) # "zero"
    \/ t = "adminUpdateApiKeyScopes" /\ Arg(a, "scopes") = "arr0"

\* `new URL(url)` throws
StdioInvalidUrl(t, a) ==
    t \in {"fetchBrandDetails", "forward"} /\ Arg(a, "url") # "url"

\* `if (!cachedToken) throw new Error("Not authenticated...")`
StdioNotAuthenticated(t, tok) ==
    t \in StdioAuthCheck /\ ~Truthy(tok)

\* durationMonths !== undefined && (!Number.isInteger(d) || d < 1)
BadDuration(d) == d # "undefined" /\ (~IsInteger(d) \/ d \in {"zero", "neg"})

\* the value checks a handler makes after the authentication check throw
StdioInvalidValue(t, a) ==
    \/ /\ t = "adminUpdateApiKeyScopes"
       /\ ~IsArray(Arg(a, "scopes"))
       /\ (~IsString(Arg(a, "scopes")) \/ TrimsToEmpty(Arg(a, "scopes")))
    \/ /\ t \in {"purchaseAddOn", "renewAddOn"}
       /\ BadDuration(Arg(a, "durationMonths"))
    \/ /\ t = "purchaseAddOn"
       /\ Arg(a, "addOnPackage") = "ADDON_CUSTOM"
       /\ \/ Nullish(Arg(a, "customRequests")) \/ Arg(a, "customRequests") \in {"zero", "neg"}
          \/ Nullish(Arg(a, "customPrice")) \/ IsNegative(Arg(a, "customPrice"))
    \/ /\ t = "getAddOnRecommendations"
       /\ Arg(a, "overageRequests") # "undefined"
       /\ (~NumberIsFinite(Arg(a, "overageRequests")) \/ IsNegative(Arg(a, "overageRequests")))

\* what the handler function throws before its request: "none" when it
\* reaches the request
StdioHandlerThrows(t, a, tok, rtok) ==
    IF StdioMissingInput(t, a, rtok) THEN
        (IF t = "refreshToken" THEN "missingRefresh" ELSE "missing")
    ELSE IF StdioInvalidUrl(t, a) THEN "invalidUrl"
    ELSE IF StdioNotAuthenticated(t, tok) THEN "notAuth"
    ELSE IF StdioInvalidValue(t, a) THEN "validation"
    ELSE "none"

\* a header built from a token captured once, not read at the request
StdioAuthHeaderCaptured(t, tok) ==
    IF t \in StdioAuthHeaderAlways THEN Bearer(AccessTok(1)) ELSE NoAuth

\* the Authorization header of the handler's request
StdioAuthHeader(t, tok) ==
    IF t \in StdioAuthHeaderAlways THEN Bearer(tok)
    ELSE IF t \in StdioAuthHeaderIfToken /\ Truthy(tok) THEN Bearer(tok)
    ELSE NoAuth

\* the request the handler issues
StdioRequest(t, a, tok, rtok) ==
    Req(StdioAuthHeader(t, tok),
        IF t = "refreshToken" THEN TokenToUse(a, rtok) ELSE "undefined",
        t \in StdioBinary)

\* a dispatcher whose outer try/catch is missing: an error thrown in a
\* branch without its own try/catch leaves the dispatcher
StdioCaughtInnerOnly(t, msg) ==
    IF t \in StdioNoInnerTry
      THEN Escaped(msg)
      ELSE Result(TRUE, <<"text">>, msg, "inner", 0)

\* the catch of the dispatcher that turns a thrown handler error into a
\* result: the branch's own try/catch, else the outer try/catch
StdioCaught(t, msg) ==
    IF t \in StdioNoInnerTry
      THEN Result(TRUE, <<"text">>, msg, "outer", 0)
      ELSE Result(TRUE, <<"text">>, msg, "inner", 0)

\* the synchronous part of a stdio call-tool request: either a result
\* (done) or the request the handler awaits
StdioCall(t, a, tok, rtok) ==
    IF t \notin StdioTools THEN
        [done |-> TRUE, req |-> NoReq,
         result |-> Result(TRUE, <<"text">>,
                           Msg("unknownTool", 0, "", 0, StdioAvailableNames), "dispatcher", 0)]
    ELSE IF StdioDispRejects(t, a) THEN
        [done |-> TRUE, req |-> NoReq,
         result |-> Result(TRUE, <<"text">>,
                           Plain(IF t \in StdioDispNoArgs THEN "noArgsAccepted" ELSE "required"),
                           "dispatcher", 0)]
    ELSE IF StdioHandlerThrows(t, a, tok, rtok) # "none" THEN
        [done |-> TRUE, req |-> NoReq,
         result |-> StdioCaught(t, Plain(StdioHandlerThrows(t, a, tok, rtok)))]
    ELSE
        [done |-> FALSE, req |-> StdioRequest(t, a, tok, rtok), result |-> NoResult]

\* ------------------------------------------------------------------------
\* stdio variant: the handler after its request settles
\* ------------------------------------------------------------------------
\* `err.response.data?.<field> || err.response.statusText` of tool t's catch
StdioErrDetail(t, o) ==
    IF t \in StdioErrFieldMessage THEN
        (IF Truthy(o.message) THEN o.message ELSE StatusText(o.status))
    ELSE IF t \in StdioErrFieldBoth THEN
        (IF Truthy(o.error) THEN o.error
         ELSE IF Truthy(o.message) THEN o.message ELSE StatusText(o.status))
    ELSE
        (IF Truthy(o.error) THEN o.error ELSE StatusText(o.status))

\* the catch block of a handler function: the error it rethrows
StdioClassify(t, o) ==
    LET err == ErrShape(o.kind) IN
    IF err.hasResponse THEN Msg("upstream", o.status, StdioErrDetail(t, o), 0, {})
    ELSE IF err.hasRequest THEN Plain("network")
    ELSE IF err.code = "ECONNABORTED" THEN Msg("timeout", 0, "", TIMEOUT, {})
    ELSE Plain("local")

\* content blocks of a successful call
StdioSuccessBlocks(t) ==
    IF t = "login" THEN <<"summary">>
    ELSE IF t \in StdioBinary THEN <<"rawjson", "summary", "base64">>
    ELSE <<"rawjson", "summary">>

\* a session that keeps the first token it was given
StdioTokenKeepsFirst(t, o, tok) ==
    IF Truthy(tok) THEN tok
    ELSE IF t \in {"login", "refreshToken"} /\ o.kind = "ok" /\ Truthy(o.token) THEN o.token
    ELSE tok

\* cachedToken after authLogin / refreshAuthToken processed a 2xx response
StdioTokenAfter(t, o, tok) ==
    IF t \in {"login", "refreshToken"} /\ o.kind = "ok" /\ Truthy(o.token) THEN o.token ELSE tok

\* a session that never stores the refresh token of a response
StdioRefreshNotCaptured(t, o, rtok) == rtok

\* cachedRefreshToken after authLogin / refreshAuthToken processed a 2xx response
StdioRefreshAfter(t, o, rtok) ==
    IF t \in {"login", "refreshToken"} /\ o.kind = "ok" /\ Truthy(o.refreshToken)
      THEN o.refreshToken ELSE rtok

\* buffer.toString("base64"): three bytes become four 6-bit digits, a
\* last group of one or two bytes is padded with "=" (64)
RECURSIVE Base64Encode(_)
Base64Encode(b) ==
    IF Len(b) = 0 THEN <<>>
    ELSE IF Len(b) = 1 THEN <<b[1] \div 4, (b[1] % 4) * 16, 64, 64>>
    ELSE IF Len(b) = 2 THEN
        <<b[1] \div 4, (b[1] % 4) * 16 + b[2] \div 16, (b[2] % 16) * 4, 64>>
    ELSE <<b[1] \div 4, (b[1] % 4) * 16 + b[2] \div 16,
           (b[2] % 16) * 4 + b[3] \div 64, b[3] % 64>>
         \o Base64Encode(SubSeq(b, 4, Len(b)))

\* the result of a stdio call whose request settled with outcome o
StdioSettle(t, o) ==
    IF o.kind = "ok"
      THEN [Result(FALSE, StdioSuccessBlocks(t), Plain("ok"), "branch", 0)
              EXCEPT !.base64 = IF t \in StdioBinary THEN Base64Encode(o.bytes) ELSE <<>>]
      ELSE StdioCaught(t, StdioClassify(t, o))

\* ------------------------------------------------------------------------
\* HTTP variant: tool registry, /call-tool, handlers
\* ------------------------------------------------------------------------
\* names registered with registerTool
HttpTools ==
    {"login", "fetchBrandDetails", "forward", "refreshAuthToken", "forgotPassword", "resetPassword",
     "getUserById", "updateUserProfile", "getBrandsPaged", "getBrandDetailsById", "getBrandByWebsite",
     "getBrandByName", "searchBrands", "getBrandsByDomain", "getBrandStatistics",
     "getBrandDashboardSummary", "getBrandDashboardSearches", "getBrandDashboardDetails",
     "getAllBrandsLegacy", "serveBrandAsset", "extractBrandData", "claimBrand",
     "getBrandPerformanceTest", "getBrandsByCategory", "getBrandsByCategoryAndSubcategory",
     "getBrandByIdCategoryAndSubcategory", "createRivoApiKey", "getRivoApiKeys", "updateRivoApiKey",
     "revokeRivoApiKey", "regenerateRivoApiKey", "deleteRivoApiKey", "getAllBrandsWithSearch",
     "serveBrandImage", "getRivoApiKeyById", "adminGetAllApiKeys", "adminGetApiKeysForUser",
     "adminCreateApiKeyForUser", "adminRevokeApiKey", "adminDeleteApiKey", "adminGetApiKeyUsage",
     "adminGetApiKeySystemStats", "adminResetApiKeyRateLimit", "adminUpdateApiKeyScopes",
     "getAddOnPackages", "purchaseAddOn", "getAddOnsForApiKey", "getActiveAddOnsForApiKey",
     "getAddOnRecommendations", "cancelAddOn", "renewAddOn", "getExpiringAddOns"}

\* handlers declared `async () =>`, which never touch their argument
HttpNoParam ==
    {"getBrandStatistics", "getBrandDashboardSummary", "getBrandPerformanceTest", "getRivoApiKeys",
     "adminGetAllApiKeys", "adminGetApiKeySystemStats", "getAddOnPackages", "getExpiringAddOns"}

\* argument fields of tool t that the HTTP handler destructures and the
\* model tracks
HttpFields(t) ==
    CASE t = "refreshAuthToken" -> {"refreshToken"}
      [] t = "fetchBrandDetails" -> {"url", "apiKey", "apiDomain"}
      [] t = "updateUserProfile" -> {"payload"}
      [] t = "serveBrandImage" -> {"brandId"}
      [] t = "purchaseAddOn" -> {"apiKeyId", "addOnPackage"}
      [] OTHER -> StdioFields(t)

\* mergeDefaultHeaders: the Authorization header of a backend request, the
\* caller's own header taking precedence
MergeDefaultHeaders(custom, tok) ==
    IF custom.present THEN custom
    ELSE IF Truthy(tok) THEN Bearer(tok)
    ELSE NoAuth

\* what the handler's try block throws before callBackend: "none" when it
\* reaches the request
HttpHandlerThrows(t, a) ==
    CASE t = "fetchBrandDetails" ->
           IF \E x \in {"url", "apiKey", "apiDomain"} :
                ~Truthy(Arg(a, x)) \/ TrimsToEmpty(Arg(a, x))
             THEN "missing" ELSE "none"
      [] t = "updateUserProfile" ->
           IF Arg(a, "payload") \in {"undefined", "empty", "str"} THEN "syntaxError" ELSE "none"
      [] t = "adminUpdateApiKeyScopes" ->
           IF \/ Arg(a, "scopes") = "arr0"
              \/ /\ ~IsArray(Arg(a, "scopes"))
                 /\ (~IsString(Arg(a, "scopes")) \/ TrimsToEmpty(Arg(a, "scopes")))
             THEN "validation" ELSE "none"
      [] t = "renewAddOn" ->
           IF BadDuration(Arg(a, "durationMonths")) THEN "validation" ELSE "none"
      [] t = "getAddOnRecommendations" ->
           IF /\ Arg(a, "overageRequests") # "undefined"
              /\ (~NumberIsFinite(Arg(a, "overageRequests")) \/ IsNegative(Arg(a, "overageRequests")))
             THEN "validation" ELSE "none"
      [] OTHER -> "none"

\* a result the handler returns: content without an isError field
HttpContent(msg) == Result(FALSE, <<"text">>, msg, "handler", 200)

\* callBackend: the request of tool t
HttpRequest(t, a, tok) ==
    Req(MergeDefaultHeaders(NoAuth, tok),
        IF t = "refreshAuthToken" THEN Arg(a, "refreshToken") ELSE "undefined",
        t \in {"serveBrandAsset", "serveBrandImage"})

\* the synchronous part of POST /call-tool
HttpCall(t, a, tok) ==
    IF t \notin HttpTools THEN
        [done |-> TRUE, req |-> NoReq,
         result |-> Result(FALSE, <<>>, Plain("toolNotFound"), "adapter", 404)]
    ELSE IF ~a.present /\ t \notin HttpNoParam THEN
        \* destructuring `undefined` rejects the handler's promise
        [done |-> TRUE, req |-> NoReq,
         result |-> Result(FALSE, <<>>, Plain("typeError"), "adapter", 500)]
    ELSE IF t = "forward" /\ ~Truthy(tok) THEN
        [done |-> TRUE, req |-> NoReq, result |-> HttpContent(Plain("notAuth"))]
    ELSE IF HttpHandlerThrows(t, a) # "none" THEN
        [done |-> TRUE, req |-> NoReq, result |-> HttpContent(Plain(HttpHandlerThrows(t, a)))]
    ELSE
        [done |-> FALSE, req |-> HttpRequest(t, a, tok), result |-> NoResult]

\* `err.response?.data?.message || err.message` of a handler's catch
HttpErrMsg(o) ==
    CASE o.kind = "status" ->
           IF Truthy(o.message) THEN Msg("bodyMessage", 0, o.message, 0, {})
           ELSE Msg("axiosStatus", o.status, "", 0, {})
      [] o.kind = "network" -> Plain("axiosNetwork")
      [] o.kind = "timeout" -> Msg("axiosTimeout", 0, "", TIMEOUT, {})
      [] o.kind = "setup" -> Plain("axiosLocal")

\* handlers that never capture the token of the response
HttpTokenNotCaptured(t, o, tok) == tok

\* cachedToken after the login / refreshAuthToken handler processed a 2xx
\* response: `cachedToken = res.token`
HttpTokenAfter(t, o, tok) ==
    IF t \in {"login", "refreshAuthToken"} /\ o.kind = "ok" THEN o.token ELSE tok

\* the base64 digits of "[object Object]", what toString yields on a plain
\* object whatever its argument: o b j e c t O b j e c t
ObjectToStringText == <<40, 27, 35, 30, 28, 45, 14, 27, 35, 30, 28, 45>>

\* the base64 text an HTTP handler puts in its content: serveBrandAsset
\* calls toString("base64") on the { data, contentType } object callBackend
\* returns, serveBrandImage on Buffer.from(result.data)
HttpBase64(t, o) ==
    IF t = "serveBrandAsset" THEN ObjectToStringText
    ELSE IF t = "serveBrandImage" THEN Base64Encode(o.bytes)
    ELSE <<>>

\* the result of an HTTP call whose request settled with outcome o
HttpSettle(t, o) ==
    IF o.kind # "ok" THEN HttpContent(HttpErrMsg(o))
    ELSE IF t = "refreshAuthToken" /\ Truthy(o.refreshToken) THEN
        \* `cachedRefreshToken = ...` assigns an undeclared name in a module
        HttpContent(Plain("referenceError"))
    ELSE [HttpContent(Plain("ok")) EXCEPT !.base64 = HttpBase64(t, o)]

\* ------------------------------------------------------------------------
\* State machine
\* ------------------------------------------------------------------------
Slots == 1..MaxInFlight

\* the slot used when invocations are served one at a time
SeqSlots == {1}

\* a name no branch and no registry entry answers
UnknownTool == "noSuchTool"

NoOutcome ==
    [kind |-> "none", status |-> 0, token |-> "undefined", refreshToken |-> "undefined",
     error |-> "undefined", message |-> "undefined", bytes |-> <<>>]

NoWrite == [kind |-> "none", token |-> "undefined"]

Idle ==
    [pc |-> "idle", tool |-> "none", args |-> NoArgs, req |-> NoReq, nreq |-> 0,
     result |-> NoResult, outcome |-> NoOutcome, tokAtCall |-> "null", rtokAtCall |-> "null"]

\* the tools that write the session
StdioAuthTools == {"login", "refreshToken"}
HttpAuthTools == {"login", "refreshAuthToken"}

\* the process environment: which of the variables validateEnvironment
\* requires are set to a non-empty value
Environments == [API_BASE_URL : BOOLEAN, API_KEY : BOOLEAN]
AllSet == [API_BASE_URL |-> TRUE, API_KEY |-> TRUE]

\* the process: "starting" before the transport is connected, "serving"
\* once it is, "exited" after process.exit(1)
Serving(env) == [phase |-> "serving", env |-> env]

Init ==
    /\ variant \in {"stdio", "http"}
    /\ cachedToken = "null"
    /\ cachedRefreshToken = "null"
    /\ inv = [s \in Slots |-> Idle]
    /\ lastWrite = NoWrite
    /\ proc = Serving(AllSet)

\* an invocation whose handler promise is dropped and never settles
StartedDetached(t, a, r) ==
    [pc |-> IF r.done THEN "done" ELSE "detached", tool |-> t, args |-> a, req |-> r.req,
     nreq |-> IF r.done THEN 0 ELSE 1, result |-> r.result, outcome |-> NoOutcome,
     tokAtCall |-> cachedToken, rtokAtCall |-> cachedRefreshToken]

\* the invocation record after the synchronous part r of a call
Started(t, a, r) ==
    [pc |-> IF r.done THEN "done" ELSE "awaiting", tool |-> t, args |-> a, req |-> r.req,
     nreq |-> IF r.done THEN 0 ELSE 1, result |-> r.result, outcome |-> NoOutcome,
     tokAtCall |-> cachedToken, rtokAtCall |-> cachedRefreshToken]

\* stdio: a CallTool request for tool t with arguments a arrives and runs
\* up to the handler's await
StdioCallTool(s, t, a) ==
    /\ variant = "stdio"
    /\ proc.phase = "serving"
    /\ inv[s].pc = "idle"
    /\ LET r == StdioCall(t, a, cachedToken, cachedRefreshToken) IN
        /\ inv' = [inv EXCEPT ![s] = Started(t, a, r)]
        /\ lastWrite' = IF r.done /\ t \in StdioAuthTools THEN NoWrite ELSE lastWrite
    /\ UNCHANGED <<variant, cachedToken, cachedRefreshToken, proc>>

\* stdio: the awaited request of slot s settles with outcome o
StdioRespond(s, o) ==
    /\ variant = "stdio"
    /\ inv[s].pc = "awaiting"
    /\ LET t == inv[s].tool IN
        /\ o \in Outcomes(t)
        /\ cachedToken' = StdioTokenAfter(t, o, cachedToken)
        /\ cachedRefreshToken' = StdioRefreshAfter(t, o, cachedRefreshToken)
        /\ inv' = [inv EXCEPT ![s].pc = "done", ![s].result = StdioSettle(t, o),
                              ![s].outcome = o]
        /\ lastWrite' =
             IF t \notin StdioAuthTools THEN lastWrite
             ELSE IF o.kind = "ok" /\ Truthy(o.token)
               THEN [kind |-> IF t = "login" THEN "login" ELSE "refresh", token |-> o.token]
               ELSE NoWrite
    /\ UNCHANGED <<variant, proc>>

\* HTTP: POST /call-tool for tool t with arguments a arrives and runs up
\* to callBackend's await
HttpCallTool(s, t, a) ==
    /\ variant = "http"
    /\ proc.phase = "serving"
    /\ inv[s].pc = "idle"
    /\ LET r == HttpCall(t, a, cachedToken) IN
        /\ inv' = [inv EXCEPT ![s] = Started(t, a, r)]
        /\ lastWrite' = IF r.done /\ t \in HttpAuthTools THEN NoWrite ELSE lastWrite
    /\ UNCHANGED <<variant, cachedToken, cachedRefreshToken, proc>>

\* HTTP: the awaited request of slot s settles with outcome o
HttpRespond(s, o) ==
    /\ variant = "http"
    /\ inv[s].pc = "awaiting"
    /\ LET t == inv[s].tool IN
        /\ o \in Outcomes(t)
        /\ cachedToken' = HttpTokenAfter(t, o, cachedToken)
        /\ inv' = [inv EXCEPT ![s].pc = "done", ![s].result = HttpSettle(t, o),
                              ![s].outcome = o]
        /\ lastWrite' =
             IF t \notin HttpAuthTools THEN lastWrite
             ELSE IF o.kind = "ok" /\ Truthy(o.token)
               THEN [kind |-> IF t = "login" THEN "login" ELSE "refresh", token |-> o.token]
               ELSE NoWrite
    /\ UNCHANGED <<variant, cachedRefreshToken, proc>>

\* the transport has sent the result of slot s; the invocation is over
Deliver(s) ==
    /\ inv[s].pc = "done"
    /\ inv' = [inv EXCEPT ![s] = Idle]
    /\ UNCHANGED <<variant, cachedToken, cachedRefreshToken, lastWrite, proc>>

Next ==
    \/ \E s \in SeqSlots, t \in StdioTools \cup {UnknownTool} :
         \E a \in ArgsOver(t, StdioFields(t)) : StdioCallTool(s, t, a)
    \/ \E s \in SeqSlots,
          o \in OkOutcomes \cup BinaryOutcomes \cup StatusOutcomes \cup NoResponseOutcomes :
         StdioRespond(s, o)
    \/ \E s \in SeqSlots, t \in HttpTools \cup {UnknownTool} :
         \E a \in ArgsOver(t, HttpFields(t)) : HttpCallTool(s, t, a)
    \/ \E s \in SeqSlots,
          o \in OkOutcomes \cup BinaryOutcomes \cup StatusOutcomes \cup NoResponseOutcomes :
         HttpRespond(s, o)
    \/ \E s \in SeqSlots : Deliver(s)

Spec == Init /\ [][Next]_vars

TypeOK ==
    /\ variant \in {"stdio", "http"}
    /\ cachedToken \in {"null", "undefined"} \cup AccessTokens
    /\ cachedRefreshToken \in {"null"} \cup RefreshTokens
    /\ \A s \in Slots : inv[s].pc \in {"idle", "awaiting", "done"}
    /\ proc.phase \in {"starting", "serving", "exited"}
    /\ proc.env \in Environments

\* names advertised by GET /list-tools: the keys of the registry
HttpListed == HttpTools

\* ------------------------------------------------------------------------
\* Vocabulary of the properties
\* ------------------------------------------------------------------------
\* the catalog of the running variant
Catalog == IF variant = "stdio" THEN StdioTools ELSE HttpTools

\* the names list-tools advertises in the running variant
Listed == IF variant = "stdio" THEN StdioListed ELSE HttpListed

\* tools whose outbound request must carry the session bearer token
AuthenticatedTools == StdioAuthHeaderAlways \cap Catalog

\* the refresh tool under either of its names
RefreshTools == {"refreshToken", "refreshAuthToken"}

\* message kinds that report a rejected argument
ArgumentKinds == {"required", "noArgsAccepted", "missing", "invalidUrl", "validation",
                  "typeError", "syntaxError"}

\* two cached values are the same token, or both are unset
SameValue(v, w) == v = w \/ (~Truthy(v) /\ ~Truthy(w))

\* slot s holds an invocation that has been called and not yet delivered
Active(s) == inv[s].pc # "idle"

\* slot s holds an invocation whose result is ready
Finished(s) == inv[s].pc = "done"

\* ------------------------------------------------------------------------
\* C1: every tool requiring authentication, invoked while the session has
\* no access token, issues zero outbound requests and yields an error
\* result that identifies the missing authentication (or, when its
\* arguments are rejected first, the rejected argument), in both variants.
\* ------------------------------------------------------------------------
C1_AnonymousCallRefused ==
    \A s \in Slots :
        (Active(s) /\ inv[s].tool \in AuthenticatedTools /\ ~Truthy(inv[s].tokAtCall))
        => /\ inv[s].nreq = 0
           /\ inv[s].result.isError
           /\ inv[s].result.msg.kind \in {"notAuth"} \cup ArgumentKinds

\* ------------------------------------------------------------------------
\* C2: after a login succeeded with an upstream response carrying token T,
\* and while no other login or refresh has completed since, the request of
\* an authenticated tool call carries Authorization exactly "Bearer T".
\* ------------------------------------------------------------------------
C2_LoginTokenSent ==
    \A s \in Slots :
        (inv[s].pc = "awaiting" /\ inv[s].tool \in AuthenticatedTools /\ lastWrite.kind = "login")
        => inv[s].req.auth = Bearer(lastWrite.token)

\* a second login replaced T1 by T2 and getUserById then sends Bearer T2
C2_Witness ==
    \E s \in Slots :
        /\ inv[s].pc = "awaiting" /\ inv[s].tool = "getUserById"
        /\ lastWrite = [kind |-> "login", token |-> "T2"]
        /\ inv[s].req.auth = Bearer("T2")
        /\ cachedToken = "T2"

\* ------------------------------------------------------------------------
\* C3: a refresh call with no explicit refreshToken argument while no
\* refresh token is cached returns an error result reporting the missing
\* refresh token and issues zero outbound requests, in both variants.
\* ------------------------------------------------------------------------
C3_RefreshWithoutTokenRefused ==
    \A s \in Slots :
        (/\ Active(s) /\ inv[s].tool \in RefreshTools \cap Catalog
         /\ inv[s].args.present
         /\ ~Truthy(Arg(inv[s].args, "refreshToken"))
         /\ ~Truthy(inv[s].rtokAtCall))
        => /\ inv[s].nreq = 0
           /\ inv[s].result.msg.kind = "missingRefresh"

\* ------------------------------------------------------------------------
\* C4: a refresh call with an explicit refresh token that receives a 2xx
\* response carrying a new access token returns a success result, and
\* every authenticated call after it carries the new access token, in both
\* variants.
\* ------------------------------------------------------------------------
C4_RefreshRotatesToken ==
    /\ \A s \in Slots :
         (/\ Finished(s) /\ inv[s].tool \in RefreshTools \cap Catalog
          /\ Truthy(Arg(inv[s].args, "refreshToken"))
          /\ inv[s].outcome.kind = "ok" /\ Truthy(inv[s].outcome.token))
         => /\ inv[s].result.msg.kind = "ok"
            /\ cachedToken = inv[s].outcome.token
    /\ \A s \in Slots :
         (/\ inv[s].pc = "awaiting" /\ inv[s].tool \in AuthenticatedTools
          /\ lastWrite.kind = "refresh")
         => inv[s].req.auth = Bearer(lastWrite.token)

\* ------------------------------------------------------------------------
\* C5: whatever the tool name, the arguments (absent included) and the
\* handler's outcome, the call-tool dispatcher hands a result to the
\* transport; no exception leaves it.
\* ------------------------------------------------------------------------
C5_NoExceptionEscapes ==
    \A s \in Slots :
        /\ ~inv[s].result.escaped
        /\ Finished(s) => inv[s].result.via # "none"

\* login's handler failed on the network; only the outer catch of the
\* stdio dispatcher stands between that error and the transport
C5_Witness ==
    \E s \in Slots :
        /\ Finished(s) /\ inv[s].tool = "login"
        /\ inv[s].outcome.kind = "network"
        /\ inv[s].result.via = "outer"
        /\ ~inv[s].result.escaped

\* ------------------------------------------------------------------------
\* C6: dispatching a name that is not in the catalog returns an error
\* result, throws nothing, issues zero requests, and the names its message
\* enumerates are exactly the names list-tools advertises.
\* ------------------------------------------------------------------------
C6_UnknownToolListsCatalog ==
    \A s \in Slots :
        (Active(s) /\ inv[s].tool \notin Catalog)
        => /\ inv[s].nreq = 0
           /\ ~inv[s].result.escaped
           /\ inv[s].result.msg.kind \in {"unknownTool", "toolNotFound"}
           /\ inv[s].result.msg.names = Listed

\* ------------------------------------------------------------------------
\* C7: a request that timed out (sent, no response, ECONNABORTED) yields
\* the timeout message stating the configured duration, a request whose
\* backend is unreachable yields the network-error message, and the two
\* never yield the same message.
\* ------------------------------------------------------------------------
C7_TimeoutDistinctFromNetwork ==
    \A s \in Slots :
        Finished(s) =>
          /\ inv[s].outcome.kind = "timeout"
               => /\ inv[s].result.msg.kind \in {"timeout", "axiosTimeout"}
                  /\ inv[s].result.msg.ms = TIMEOUT
          /\ inv[s].outcome.kind = "network"
               => inv[s].result.msg.kind \in {"network", "axiosNetwork"}

\* ------------------------------------------------------------------------
\* C8: when the upstream answers a non-2xx status S, the call returns an
\* error result whose message contains S and the body's message field if
\* it has one, else the status reason phrase.
\* ------------------------------------------------------------------------
C8_StatusAndBodyMessage ==
    \A s \in Slots :
        (Finished(s) /\ inv[s].outcome.kind = "status")
        => /\ ~inv[s].result.escaped
           /\ inv[s].result.msg.status = inv[s].outcome.status
           /\ inv[s].result.msg.detail =
                IF Truthy(inv[s].outcome.message) THEN inv[s].outcome.message
                ELSE StatusText(inv[s].outcome.status)

\* ------------------------------------------------------------------------
\* C9: every failure outcome of a tool call is rendered as a result that
\* carries isError = true together with a message, in both variants.
\* ------------------------------------------------------------------------
C9_FailuresFlagged ==
    \A s \in Slots :
        (Finished(s) /\ inv[s].result.msg.kind \in FailureKinds)
        => inv[s].result.isError

\* ------------------------------------------------------------------------
\* C10: the session has one writer path: a call that is not a successful
\* login or refresh leaves both cached tokens as they were when it was
\* called; a login or refresh that returns a failure has modified neither.
\* ------------------------------------------------------------------------
C10_OneWriterPath ==
    \A s \in Slots :
        (Finished(s)
         /\ ~(inv[s].tool \in {"login"} \cup RefreshTools /\ inv[s].result.msg.kind = "ok"))
        => /\ cachedToken = inv[s].tokAtCall
           /\ cachedRefreshToken = inv[s].rtokAtCall

\* ------------------------------------------------------------------------
\* C11: a successful login or refresh overwrites the cached access token
\* only when the response carries a non-empty token, and the cached refresh
\* token only when it carries a non-empty refreshToken; a field absent from
\* the response keeps its previous value.
\* ------------------------------------------------------------------------
C11_PartialOverwrite ==
    \A s \in Slots :
        (/\ Finished(s) /\ inv[s].tool \in {"login"} \cup RefreshTools
         /\ inv[s].outcome.kind = "ok" /\ inv[s].result.msg.kind = "ok")
        => /\ Truthy(inv[s].outcome.token) => cachedToken = inv[s].outcome.token
           /\ ~Truthy(inv[s].outcome.token) => SameValue(cachedToken, inv[s].tokAtCall)
           /\ ~Truthy(inv[s].outcome.refreshToken)
                => SameValue(cachedRefreshToken, inv[s].rtokAtCall)

\* ------------------------------------------------------------------------
\* C12: once the session holds an access token, no step of any tool call
\* (a login or refresh whose response lacks a token or fails included)
\* leaves it without one.
\* ------------------------------------------------------------------------
C12_NeverBackToAnonymous ==
    [][Truthy(cachedToken) => Truthy(cachedToken')]_vars

\* message kinds of a call refused before any request
RefusalKinds == ArgumentKinds \cup {"notAuth", "missingRefresh", "unknownTool", "toolNotFound"}

\* ------------------------------------------------------------------------
\* C13: every invocation issues at most one outbound request: one when its
\* arguments are accepted and its authentication precondition passes, zero
\* otherwise; a failed request is never issued again.
\* ------------------------------------------------------------------------
C13_OneRequestPerCall ==
    \A s \in Slots :
        Active(s) =>
          /\ inv[s].nreq <= 1
          /\ (inv[s].tool \in AuthenticatedTools /\ ~Truthy(inv[s].tokAtCall)) => inv[s].nreq = 0
          /\ inv[s].result.msg.kind \in RefusalKinds => inv[s].nreq = 0
          /\ (Finished(s) /\ inv[s].nreq = 0) => inv[s].result.msg.kind \in RefusalKinds

\* the part of C13 that does not depend on the authentication check: at
\* most one request, none for a refused call, one for every other call
OneRequestUnlessRefused ==
    \A s \in Slots :
        Active(s) =>
          /\ inv[s].nreq <= 1
          /\ inv[s].result.msg.kind \in RefusalKinds => inv[s].nreq = 0
          /\ (Finished(s) /\ inv[s].nreq = 0) => inv[s].result.msg.kind \in RefusalKinds

\* fields listed under `required` in the input schema ListTools advertises
\* for tool t
StdioSchemaRequired(t) ==
    CASE t \in {"fetchBrandDetails", "forward", "extractBrandData"} -> {"url"}
      [] t = "login" -> {"username", "password"}
      [] t = "forgotPassword" -> {"email"}
      [] t \in {"getUserById", "getBrandDetailsById", "claimBrand"} -> {"id"}
      [] t = "resetPassword" -> {"token", "newPassword"}
      [] t = "createRivoApiKey" -> {"name", "registeredDomain"}
      [] t = "adminGetApiKeysForUser" -> {"userId"}
      [] t = "adminCreateApiKeyForUser" -> {"userId", "name", "registeredDomain"}
      [] t \in {"adminRevokeApiKey", "adminDeleteApiKey", "adminGetApiKeyUsage",
                "adminResetApiKeyRateLimit", "getRivoApiKeyById", "updateRivoApiKey",
                "revokeRivoApiKey", "regenerateRivoApiKey", "deleteRivoApiKey"} -> {"keyId"}
      [] t = "adminUpdateApiKeyScopes" -> {"keyId", "scopes"}
      [] t = "purchaseAddOn" -> {"apiKeyId", "addOnPackage"}
      [] t \in {"getAddOnsForApiKey", "getActiveAddOnsForApiKey", "getAddOnRecommendations"}
           -> {"apiKeyId"}
      [] t \in {"cancelAddOn", "renewAddOn"} -> {"addOnId"}
      [] t = "getBrandByWebsite" -> {"website"}
      [] t = "getBrandByName" -> {"name"}
      [] t = "searchBrands" -> {"q"}
      [] t = "getBrandsByDomain" -> {"domain"}
      [] t = "getBrandDashboardDetails" -> {"brandId"}
      [] t = "serveBrandAsset" -> {"assetId"}
      [] t = "serveBrandImage" -> {"imageId"}
      [] t = "getBrandsByCategory" -> {"categoryId"}
      [] t = "getBrandsByCategoryAndSubcategory" -> {"categoryId", "subCategoryId"}
      [] t = "getBrandByIdCategoryAndSubcategory" -> {"id", "categoryId", "subCategoryId"}
      [] OTHER -> {}

\* message kinds that report a required argument as missing
MissingKinds == {"required", "missing"}

\* ------------------------------------------------------------------------
\* C14: required-argument validation treats the number 0 as present: a
\* stdio call whose required arguments are each 0 or a non-empty value is
\* not rejected as missing a required argument, by the dispatcher or by
\* the handler.
\* ------------------------------------------------------------------------
C14_ZeroIsPresent ==
    \A s \in Slots :
        (/\ Active(s) /\ variant = "stdio" /\ inv[s].tool \in StdioTools
         /\ inv[s].args.present
         /\ \E x \in StdioSchemaRequired(inv[s].tool) : Arg(inv[s].args, x) = "zero"
         /\ \A x \in StdioSchemaRequired(inv[s].tool) :
               Arg(inv[s].args, x) = "zero" \/ Truthy(Arg(inv[s].args, x)))
        => inv[s].result.msg.kind \notin MissingKinds

\* ------------------------------------------------------------------------
\* C15: in the stdio variant, for every tool and every field its advertised
\* schema lists as required, a call that omits the field returns an error
\* result reporting the missing argument and issues zero outbound requests,
\* whatever the session holds.
\* ------------------------------------------------------------------------
C15_RequiredFieldsEnforced ==
    \A s \in Slots :
        (/\ Active(s) /\ variant = "stdio" /\ inv[s].tool \in StdioTools
         /\ \E x \in StdioSchemaRequired(inv[s].tool) : Arg(inv[s].args, x) = "undefined")
        => /\ inv[s].nreq = 0
           /\ Finished(s)
           /\ inv[s].result.isError
           /\ inv[s].result.msg.kind \in MissingKinds

\* an authenticated session calls getBrandByIdCategoryAndSubcategory without
\* subCategoryId, which the dispatcher does not test: the handler's own
\* check refuses the call before any request
C15_Witness ==
    \E s \in Slots :
        /\ Finished(s) /\ variant = "stdio"
        /\ inv[s].tool = "getBrandByIdCategoryAndSubcategory"
        /\ Truthy(inv[s].tokAtCall)
        /\ Arg(inv[s].args, "id") = "str" /\ Arg(inv[s].args, "categoryId") = "zero"
        /\ Arg(inv[s].args, "subCategoryId") = "undefined"
        /\ inv[s].nreq = 0
        /\ inv[s].result.isError /\ inv[s].result.via = "inner"
        /\ inv[s].result.msg.kind = "missing"

\* the tools of the binary asset / image endpoints, in either variant
BinaryTools == {"serveBrandAsset", "serveBrandImage"}

\* ------------------------------------------------------------------------
\* C16: a successful serveBrandAsset or serveBrandImage call returns exactly
\* three content blocks in this order: the JSON metadata without the
\* payload, the summary line with the content-type, the base64 block.
\* ------------------------------------------------------------------------
C16_BinaryThreeBlocks ==
    \A s \in Slots :
        (Finished(s) /\ inv[s].tool \in BinaryTools /\ inv[s].outcome.kind = "ok")
        => inv[s].result.blocks = <<"rawjson", "summary", "base64">>

\* what a client obtains by decoding base64 text: four digits become three
\* bytes, fewer where the group ends in pads
RECURSIVE Base64Decode(_)
Base64Decode(x) ==
    IF Len(x) < 4 THEN <<>>
    ELSE (IF x[3] = 64 THEN <<x[1] * 4 + x[2] \div 16>>
          ELSE IF x[4] = 64 THEN <<x[1] * 4 + x[2] \div 16, (x[2] % 16) * 16 + x[3] \div 4>>
          ELSE <<x[1] * 4 + x[2] \div 16, (x[2] % 16) * 16 + x[3] \div 4,
                 (x[3] % 4) * 64 + x[4]>>)
         \o Base64Decode(SubSeq(x, 5, Len(x)))

\* ------------------------------------------------------------------------
\* C17: for every byte sequence the backend returns for a binary endpoint,
\* the base64 text serveBrandAsset / serveBrandImage returns decodes to
\* exactly that byte sequence, in both variants.
\* ------------------------------------------------------------------------
C17_Base64RoundTrip ==
    \A s \in Slots :
        (Finished(s) /\ inv[s].tool \in BinaryTools /\ inv[s].outcome.kind = "ok")
        => Base64Decode(inv[s].result.base64) = inv[s].outcome.bytes

\* the round trip where the payload is encoded from the bytes: the stdio
\* tools and the HTTP serveBrandImage
RoundTripWhereEncoded ==
    \A s \in Slots :
        (/\ Finished(s) /\ inv[s].tool \in BinaryTools /\ inv[s].outcome.kind = "ok"
         /\ ~(variant = "http" /\ inv[s].tool = "serveBrandAsset"))
        => Base64Decode(inv[s].result.base64) = inv[s].outcome.bytes

\* ------------------------------------------------------------------------
\* C18: every successful call of a non-binary tool, login included, returns
\* a raw-JSON text block followed by a summary text block.
\* ------------------------------------------------------------------------
C18_RawJsonThenSummary ==
    \A s \in Slots :
        (/\ Finished(s) /\ inv[s].tool \in Catalog \ BinaryTools
         /\ inv[s].outcome.kind = "ok" /\ inv[s].result.msg.kind = "ok")
        => inv[s].result.blocks = <<"rawjson", "summary">>

\* ------------------------------------------------------------------------
\* C19: every outbound request issued while the session holds an access
\* token T carries Authorization "Bearer T", for every tool, those that do
\* not require authentication included (no tool lets its caller supply an
\* Authorization header of its own).
\* ------------------------------------------------------------------------
C19_TokenOnEveryRequest ==
    \A s \in Slots :
        (inv[s].pc = "awaiting" /\ Truthy(inv[s].tokAtCall))
        => inv[s].req.auth = Bearer(inv[s].tokAtCall)

\* ------------------------------------------------------------------------
\* C20: the refresh token sent to /auth/refresh is the refreshToken argument
\* when one is given and otherwise the cached refresh token; a given one
\* takes precedence over the cached one.
\* ------------------------------------------------------------------------
C20_RefreshTokenSent ==
    \A s \in Slots :
        (inv[s].pc = "awaiting" /\ inv[s].tool \in RefreshTools \cap Catalog)
        => /\ Truthy(inv[s].req.body)
           /\ inv[s].req.body =
                IF Truthy(Arg(inv[s].args, "refreshToken"))
                  THEN Arg(inv[s].args, "refreshToken") ELSE inv[s].rtokAtCall

\* ------------------------------------------------------------------------
\* Startup

\* validateEnvironment throws when a required variable is unset or empty
ValidateEnvironmentThrows(env) == ~env.API_BASE_URL \/ ~env.API_KEY

\* stdio: startServer validates the environment and then connects the
\* stdio transport; its catch exits the process with status 1
StdioStartServer ==
    /\ variant = "stdio"
    /\ proc.phase = "starting"
    /\ proc' = [proc EXCEPT !.phase = IF ValidateEnvironmentThrows(proc.env)
                                        THEN "exited" ELSE "serving"]
    /\ UNCHANGED <<variant, cachedToken, cachedRefreshToken, inv, lastWrite>>

\* HTTP: the module reads no environment variable and ends in app.listen
HttpListen ==
    /\ variant = "http"
    /\ proc.phase = "starting"
    /\ proc' = [proc EXCEPT !.phase = "serving"]
    /\ UNCHANGED <<variant, cachedToken, cachedRefreshToken, inv, lastWrite>>

\* the tools of the session's life cycle, used where the whole catalog
\* is not needed
StdioCoreTools == {"login", "refreshToken", "getUserById", "forward"}
HttpCoreTools == {"login", "refreshAuthToken", "getUserById", "forward"}

StartInit ==
    /\ variant \in {"stdio", "http"}
    /\ cachedToken = "null"
    /\ cachedRefreshToken = "null"
    /\ inv = [s \in Slots |-> Idle]
    /\ lastWrite = NoWrite
    /\ proc \in [phase : {"starting"}, env : Environments]

StartNext ==
    \/ StdioStartServer
    \/ HttpListen
    \/ \E s \in SeqSlots, t \in StdioCoreTools :
         \E a \in ArgsOver(t, StdioFields(t)) : StdioCallTool(s, t, a)
    \/ \E s \in SeqSlots, o \in OkOutcomes \cup StatusOutcomes \cup NoResponseOutcomes :
         StdioRespond(s, o)
    \/ \E s \in SeqSlots, t \in HttpCoreTools :
         \E a \in ArgsOver(t, HttpFields(t)) : HttpCallTool(s, t, a)
    \/ \E s \in SeqSlots, o \in OkOutcomes \cup StatusOutcomes \cup NoResponseOutcomes :
         HttpRespond(s, o)
    \/ \E s \in SeqSlots : Deliver(s)

\* the program from process start
StartSpec == StartInit /\ [][StartNext]_vars

\* the configuration the running variant uses is complete: the HTTP
\* variant's base URL is a literal in the module, so only its key can lack
BaseUrlConfigured == variant = "http" \/ proc.env.API_BASE_URL
ApiKeyConfigured == proc.env.API_KEY

\* C21: when the backend base URL or the API key is absent at startup the
\* process never connects its transport and never serves a call-tool
\* request: a serving process has both configured.
C21_StartupRequiresConfiguration ==
    (proc.phase = "serving" \/ \E s \in Slots : Active(s))
        => (BaseUrlConfigured /\ ApiKeyConfigured)

\* the stdio variant alone: it serves only with both variables set
StdioStartupRequiresConfiguration ==
    (variant = "stdio" /\ proc.phase = "serving")
        => (proc.env.API_BASE_URL /\ proc.env.API_KEY)

\* ------------------------------------------------------------------------
\* Concurrent invocations
\*
\* The CallTool handler is async: a second request is dispatched while the
\* first awaits its response, so up to MaxInFlight invocations interleave
\* at their awaits.
\* ------------------------------------------------------------------------
StdioConcTools == {"login", "refreshToken", "getUserById"}
HttpConcTools == {"login", "refreshAuthToken", "getUserById"}

\* an arguments object with every field given
WellFormedArgs(t, fields) ==
    { a \in ArgsOver(t, fields) :
        a.present /\ \A x \in fields : a.f[x] \in {"str", "RX"} }

\* the outcomes of a request in the concurrent runs: a 2xx answer, with
\* both tokens or neither, or a timeout
ConcOutcomes ==
    { o \in OkOutcomes : (o.token = "undefined") <=> (o.refreshToken = "undefined") }
    \cup { o \in NoResponseOutcomes : o.kind = "timeout" }

\* slot s is the one a new invocation takes: slots are interchangeable, so
\* an arriving request is given the first free one
FirstIdle(s) == inv[s].pc = "idle" /\ \A r \in Slots : r < s => inv[r].pc # "idle"

\* no finished handler is waiting for its result to be sent: the send is the
\* continuation of the handler's promise and runs before the event loop
\* takes the next request or response
NoneFinished == \A r \in Slots : ~Finished(r)

ConcNext ==
    \/ \E s \in Slots, t \in StdioConcTools :
         \E a \in WellFormedArgs(t, StdioFields(t)) :
            NoneFinished /\ FirstIdle(s) /\ StdioCallTool(s, t, a)
    \/ \E s \in Slots, o \in ConcOutcomes : NoneFinished /\ StdioRespond(s, o)
    \/ \E s \in Slots, t \in HttpConcTools :
         \E a \in WellFormedArgs(t, HttpFields(t)) :
            NoneFinished /\ FirstIdle(s) /\ HttpCallTool(s, t, a)
    \/ \E s \in Slots, o \in ConcOutcomes : NoneFinished /\ HttpRespond(s, o)
    \/ \E s \in Slots : Deliver(s)

\* the serving program with interleaved invocations
ConcSpec == Init /\ [][ConcNext]_vars

\* ------------------------------------------------------------------------
\* C22: when logins (or a login and a refresh) are in flight together and
\* their responses carry tokens, the cached access token is the token of
\* the response that was processed last, whatever the order the calls
\* started in.
\* ------------------------------------------------------------------------
C22_LastProcessedWins ==
    lastWrite.kind # "none" => cachedToken = lastWrite.token

\* a token writer that started while the session was anonymous is processed
\* after another writer that started later: a request issued in between
\* went out with the other writer's token, and the token cached now is the
\* one of the response processed last
C22_Witness ==
    \E s, r \in Slots :
        /\ Finished(s) /\ inv[s].tool \in {"login"} \cup RefreshTools
        /\ inv[s].tokAtCall = "null" /\ Truthy(inv[s].outcome.token)
        /\ inv[r].pc = "awaiting" /\ Truthy(inv[r].tokAtCall)
        /\ inv[r].tokAtCall # inv[s].outcome.token
        /\ lastWrite.token = inv[s].outcome.token
        /\ cachedToken = inv[s].outcome.token

\* ------------------------------------------------------------------------
\* C23: a handler does not suspend between its authentication check and
\* its request: in every interleaving the bearer token on an authenticated
\* tool's request is the session token that passed that invocation's check,
\* whatever other invocations write to the session before the response.
\* ------------------------------------------------------------------------
C23_CheckedTokenIsSent ==
    \A s \in Slots :
        (/\ Active(s) /\ inv[s].tool \in AuthenticatedTools
         /\ inv[s].nreq > 0 /\ Truthy(inv[s].tokAtCall))
        => /\ inv[s].req.auth.present
           /\ inv[s].req.auth.value = inv[s].tokAtCall

\* an authenticated request is in flight with the token that passed its
\* check while a login processed since has put another token in the session
C23_Witness ==
    \E s \in Slots :
        /\ inv[s].pc = "awaiting" /\ inv[s].tool = "getUserById"
        /\ Truthy(inv[s].tokAtCall)
        /\ inv[s].req.auth = Bearer(inv[s].tokAtCall)
        /\ Truthy(cachedToken) /\ cachedToken # inv[s].tokAtCall

\* ------------------------------------------------------------------------
\* Progress
\* ------------------------------------------------------------------------
\* the outcomes told apart for progress: answered with the tokens of one
\* response, answered without tokens, timed out
LiveOutcomes == { o \in ConcOutcomes : o.token \in {"undefined", AccessTok(1)} }

\* the awaited request of slot s settles: it is answered, fails, or is
\* aborted by the timeout every request is configured with. A response
\* that has arrived stays queued in the event loop until it is processed.
Settles(s) == \E o \in LiveOutcomes : StdioRespond(s, o) \/ HttpRespond(s, o)

LiveNext ==
    \/ \E s \in Slots, t \in StdioConcTools :
         \E a \in WellFormedArgs(t, StdioFields(t)) :
            NoneFinished /\ FirstIdle(s) /\ StdioCallTool(s, t, a)
    \/ \E s \in Slots, o \in LiveOutcomes : NoneFinished /\ StdioRespond(s, o)
    \/ \E s \in Slots, t \in HttpConcTools :
         \E a \in WellFormedArgs(t, HttpFields(t)) :
            NoneFinished /\ FirstIdle(s) /\ HttpCallTool(s, t, a)
    \/ \E s \in Slots, o \in LiveOutcomes : NoneFinished /\ HttpRespond(s, o)
    \/ \E s \in Slots : Deliver(s)

\* the concurrent program under the assumption that every issued request
\* settles and every finished handler's result is sent
LiveSpec ==
    /\ Init
    /\ [][LiveNext]_vars
    /\ \A s \in Slots : WF_vars(Settles(s)) /\ WF_vars(Deliver(s))

\* a step keeps the result of a finished invocation until it is sent, and
\* keeps an invocation that awaits its response in flight or finishes it
ResultKept ==
    \A s \in Slots :
        /\ Finished(s) => (inv'[s] = inv[s] \/ inv'[s] = Idle)
        /\ inv[s].pc = "awaiting" =>
             /\ inv'[s].pc \in {"awaiting", "done"}
             /\ inv'[s].tool = inv[s].tool /\ inv'[s].req = inv[s].req

\* C24: every call-tool invocation eventually produces exactly one result,
\* given that each issued request is eventually answered, fails or times
\* out; invocations in flight together neither block nor cancel one
\* another.
C24_EveryCallAnswered ==
    /\ \A s \in Slots : Active(s) ~> Finished(s)
    /\ \A s \in Slots : Finished(s) ~> ~Active(s)
    /\ [][ResultKept]_vars

\* one invocation has its result while another is still awaiting its
\* response
C24_Witness ==
    \E s, r \in Slots :
        /\ Finished(s) /\ inv[s].nreq = 1 /\ inv[s].outcome.kind = "timeout"
        /\ inv[r].pc = "awaiting"

\* ------------------------------------------------------------------------
\* tools both variants expose under the same name
SharedTools == StdioTools \cap HttpTools

\* a result reports success
Succeeds(res) == res.msg.kind = "ok"

\* C25: on a tool both variants expose under the same name, with the same
\* session state and arguments, the HTTP variant issues a request exactly
\* when the stdio variant does, and the two yield the same success or
\* failure outcome for the same response.
C25_VariantsEquivalent ==
    \A s \in Slots :
        (Active(s) /\ inv[s].tool \in SharedTools)
        => LET t  == inv[s].tool
               sc == StdioCall(t, inv[s].args, inv[s].tokAtCall, inv[s].rtokAtCall)
               hc == HttpCall(t, inv[s].args, inv[s].tokAtCall)
           IN  /\ sc.done <=> hc.done
               /\ (Finished(s) /\ inv[s].nreq = 1)
                    => (Succeeds(StdioSettle(t, inv[s].outcome))
                          <=> Succeeds(HttpSettle(t, inv[s].outcome)))

\* ------------------------------------------------------------------------
\* the names call-tool dispatches to a handler in the running variant: those
\* it does not answer with its unknown-tool result
Dispatched ==
    IF variant = "stdio"
      THEN { t \in StdioListed \cup StdioTools \cup {UnknownTool} :
               StdioCall(t, NoArgs, cachedToken, cachedRefreshToken).result.msg.kind
                 # "unknownTool" }
      ELSE { t \in HttpListed \cup HttpTools \cup {UnknownTool} :
               HttpCall(t, NoArgs, cachedToken).result.msg.kind # "toolNotFound" }

\* C26: in each variant the names list-tools advertises are exactly the
\* names call-tool dispatches to a handler: no listed tool is answered as
\* unknown and no dispatched tool is unlisted. The two sets are compared
\* whenever no invocation is in progress, and every invocation is held
\* against the advertised set.
C26_ListedIsDispatched ==
    /\ (\A s \in Slots : ~Active(s)) => Listed = Dispatched
    /\ \A s \in Slots :
         Active(s) => (inv[s].tool \in Listed
                         <=> inv[s].result.msg.kind \notin {"unknownTool", "toolNotFound"})

\* a listed tool was dispatched to its handler and returned its success
\* result
C26_Witness ==
    \E s \in Slots :
        /\ Finished(s) /\ inv[s].tool \in Listed /\ inv[s].tool = "forward"
        /\ inv[s].nreq = 1 /\ Succeeds(inv[s].result)

\* ------------------------------------------------------------------------
\* C27: an Authorization header on an outbound request carries a token that
\* was stored in the session from a login or refresh response: the header
\* is never built from the unset session, "Bearer null" or "Bearer
\* undefined".
\* ------------------------------------------------------------------------
C27_BearerIsStoredToken ==
    \A s \in Slots :
        (Active(s) /\ inv[s].nreq > 0 /\ inv[s].req.auth.present)
        => /\ inv[s].req.auth.value \in AccessTokens
           /\ inv[s].req.auth.value = inv[s].tokAtCall

\* the headers of every tool but forward are built from a stored token
BearerIsStoredTokenButForward ==
    \A s \in Slots :
        (Active(s) /\ inv[s].nreq > 0 /\ inv[s].req.auth.present /\ inv[s].tool # "forward")
        => /\ inv[s].req.auth.value \in AccessTokens
           /\ inv[s].req.auth.value = inv[s].tokAtCall

\* ------------------------------------------------------------------------
\* the two tokens were issued by the same response: a response that
\* carries both carries AccessTok(i) and RefreshTok(i) of one i
SameResponse(tok, rtok) ==
    \E i \in 1..NumResp : tok = AccessTok(i) /\ rtok = RefreshTok(i)

\* C28: in every state where both cached tokens are set, the cached access
\* token and the cached refresh token were written from the same login or
\* refresh response.
C28_TokensFromSameResponse ==
    (Truthy(cachedToken) /\ Truthy(cachedRefreshToken))
        => SameResponse(cachedToken, cachedRefreshToken)

\* C28 as the code has it: once a login or refresh response that carries
\* both tokens has been processed, both cached tokens are the ones of that
\* response; a response that carries one of the two replaces that one only.
C28_PairAfterFullResponse ==
    \A s \in SeqSlots :
        (/\ variant = "stdio" /\ Finished(s) /\ inv[s].tool \in StdioAuthTools
         /\ inv[s].outcome.kind = "ok")
        => /\ (Truthy(inv[s].outcome.token) /\ Truthy(inv[s].outcome.refreshToken))
                => /\ cachedToken = inv[s].outcome.token
                   /\ cachedRefreshToken = inv[s].outcome.refreshToken
                   /\ SameResponse(cachedToken, cachedRefreshToken)
           /\ ~Truthy(inv[s].outcome.token) => cachedToken = inv[s].tokAtCall
           /\ ~Truthy(inv[s].outcome.refreshToken) => cachedRefreshToken = inv[s].rtokAtCall

\* a login answered with both tokens has replaced the pair of an earlier
\* login
C28_Witness ==
    \E s \in SeqSlots :
        /\ variant = "stdio" /\ Finished(s) /\ inv[s].tool = "login"
        /\ Truthy(inv[s].tokAtCall) /\ Truthy(inv[s].rtokAtCall)
        /\ Truthy(inv[s].outcome.token) /\ inv[s].outcome.token # inv[s].tokAtCall
        /\ Truthy(inv[s].outcome.refreshToken)
        /\ cachedToken = inv[s].outcome.token
        /\ cachedRefreshToken = inv[s].outcome.refreshToken

\* ------------------------------------------------------------------------
\* the purchaseAddOn inputs the claim admits: durationMonths absent or an
\* integer >= 1 and, for ADDON_CUSTOM, customRequests > 0 and
\* customPrice >= 0, both given
PurchaseInputAdmitted(a) ==
    /\ Arg(a, "durationMonths") \in {"undefined", "one"}
    /\ Arg(a, "addOnPackage") = "ADDON_CUSTOM"
         => /\ Arg(a, "customRequests") = "one"
            /\ Arg(a, "customPrice") = "zero"

\* the call passes the checks that come before the value checks
PurchaseReachesValidation(s) ==
    /\ Truthy(Arg(inv[s].args, "apiKeyId")) /\ Truthy(Arg(inv[s].args, "addOnPackage"))
    /\ Truthy(inv[s].tokAtCall)

\* C29: purchaseAddOn issues a request only on admitted input; every other
\* input returns an error result with zero requests; an ADDON_CUSTOM
\* purchase with customPrice = 0 is accepted.
C29_PurchaseValidated ==
    \A s \in Slots :
        (Active(s) /\ inv[s].tool = "purchaseAddOn")
        => /\ inv[s].nreq > 0 => PurchaseInputAdmitted(inv[s].args)
           /\ ~PurchaseInputAdmitted(inv[s].args)
                => /\ Finished(s) /\ inv[s].nreq = 0
                   /\ inv[s].result.msg.kind \in FailureKinds
           /\ (PurchaseInputAdmitted(inv[s].args) /\ PurchaseReachesValidation(s))
                => inv[s].nreq = 1

\* the stdio handler alone validates as the claim says
StdioPurchaseValidated ==
    \A s \in Slots :
        (variant = "stdio" /\ Active(s) /\ inv[s].tool = "purchaseAddOn")
        => /\ inv[s].nreq > 0 => PurchaseInputAdmitted(inv[s].args)
           /\ ~PurchaseInputAdmitted(inv[s].args)
                => /\ Finished(s) /\ inv[s].nreq = 0 /\ inv[s].result.isError
           /\ (PurchaseInputAdmitted(inv[s].args) /\ PurchaseReachesValidation(s))
                => inv[s].nreq = 1

\* ------------------------------------------------------------------------
\* stdio tools whose advertised inputSchema has `properties: {}`
StdioSchemaNoProperties ==
    {"adminGetAllApiKeys", "adminGetApiKeySystemStats", "getAddOnPackages", "getExpiringAddOns",
     "getNearlyExhaustedAddOns", "processAutoRenewals", "cleanupExpiredAddOns",
     "getRivoApiKeys", "getBrandStatistics", "getBrandDashboardSummary",
     "getBrandPerformanceTest"}

\* the invocation in slot s of a tool of the set ts is refused when given
\* arguments and proceeds to its request when given none
NoArgumentsEnforced(s, ts) ==
    (variant = "stdio" /\ Active(s) /\ inv[s].tool \in ts)
    => /\ HasKeys(inv[s].args)
            => /\ Finished(s) /\ inv[s].nreq = 0
               /\ inv[s].result.isError
       /\ (~HasKeys(inv[s].args)
           /\ (inv[s].tool \in StdioAuthCheck => Truthy(inv[s].tokAtCall)))
            => inv[s].nreq = 1

\* C30: every stdio tool whose advertised schema declares no properties
\* returns an error result with zero requests when invoked with a
\* non-empty arguments object, and proceeds to its request when invoked
\* with absent or empty arguments.
C30_NoPropertiesRejectArguments ==
    \A s \in Slots : NoArgumentsEnforced(s, StdioSchemaNoProperties)

\* the seven branches that test Object.keys(arguments) do as the claim says
DispNoArgsRejectArguments ==
    \A s \in Slots : NoArgumentsEnforced(s, StdioDispNoArgs)

====
